---- MODULE Spec2Model ----
(***************************************************************************)
(* Sliding-window aggregation of miner reports, as implemented three times *)
(* in the repository:                                                      *)
(*   A  src/src/main.rs               one actor, select! over an mpsc      *)
(*                                    channel and a 1 s interval           *)
(*   B  src/src/bin/actor_per_pool.rs one actor per pool behind an RwLock  *)
(*                                    registry, plus an aggregator task    *)
(*   C  src/src/bin/rayon.rs          SegQueue drained by a periodic task  *)
(* A behaviour runs one of the three binaries; `strategy` says which.      *)
(***************************************************************************)
EXTENDS Integers, Sequences, FiniteSets, TLC

\* ------------------------------------------------------------ bounds ----
MaxReports == 2          \* POST /report requests per behaviour
MaxTs == 1               \* report timestamps range over 0..MaxTs
MaxNow == 2              \* SystemTime::now() ranges over 0..MaxNow
expiration_secs == 1     \* Cli.expiration_secs (default 300), scaled down
ReportChannelCap == 1    \* mpsc::channel::<Report>(1024), scaled down
PoolChannelCap == 2      \* mpsc::channel(256), scaled down
MaxVersion == 2          \* the watch channel's version is counted up to here

Strategies == {"A", "B", "C"}
Handlers == {1, 2}       \* concurrently running post_report handlers
Pools == {"p1", "p2"}
PoolOrder == <<"p1", "p2">>   \* String's Ord, as BTreeMap iterates
Workers == {"w1", "w2"}
ReportIds == 1..MaxReports

NoReport == [id |-> 0]

\* A Report as deserialized from the request body.  `id` is the identity of
\* the value (Rust moves it, never copies it); it is not a field on the wire.
\* Hashrate and temperature are drawn per worker: w1 100/60, w2 200/80.
Report(id, w, p, ts) ==
    [id |-> id, worker_id |-> w, pool |-> p,
     hashrate |-> IF w = "w1" THEN 100 ELSE 200,
     temperature |-> IF w = "w1" THEN 60 ELSE 80,
     timestamp |-> ts]

\* ------------------------------------------------- pure computations ----
RECURSIVE Gcd(_, _)
Gcd(a, b) == IF b = 0 THEN a ELSE Gcd(b, a % b)

\* f64 division of a sum of small integers by a length: the exact quotient,
\* kept as a reduced fraction <<numerator, denominator>>.
F64Div(sum, len) == LET g == Gcd(sum, len) IN <<sum \div g, len \div g>>

F64Zero == <<0, 1>>

\* u64::wrapping_sub, at the width of the model's integers.
wrapping_sub(a, b) == (a - b) % 2147483647

\* u64::saturating_sub
saturating_sub(a, b) == IF a >= b THEN a - b ELSE 0

ExpirationTs(now_ts) == saturating_sub(now_ts, expiration_secs)

\* Strategy A: while let Some(report) = deque.front() { if report.timestamp <
\* expiration_ts { deque.pop_front(); } else { break; } }
RECURSIVE PruneFront(_, _)
PruneFront(deque, expiration_ts) ==
    IF deque # <<>> /\ Head(deque).timestamp < expiration_ts
    THEN PruneFront(Tail(deque), expiration_ts)
    ELSE deque

\* retain with the comparison off by one: a report stamped exactly at the
\* threshold is dropped.
RetainStrict(deque, expiration_ts) ==
    SelectSeq(deque, LAMBDA r : r.timestamp > expiration_ts)

\* Strategies B and C: deque.retain(|r| r.timestamp >= expiration_ts)
Retain(deque, expiration_ts) ==
    SelectSeq(deque, LAMBDA r : r.timestamp >= expiration_ts)

\* deque.iter().fold((0.0, 0.0, HashSet::new()), ...)
RECURSIVE FoldReports(_, _)
FoldReports(deque, acc) ==
    IF deque = <<>> THEN acc
    ELSE FoldReports(Tail(deque),
                     [h |-> acc.h + Head(deque).hashrate,
                      t |-> acc.t + Head(deque).temperature,
                      w |-> acc.w \cup {Head(deque).worker_id}])

PoolStatsDefault == [workers |-> 0, avg_hashrate |-> F64Zero, avg_temp |-> F64Zero]

\* The averages taken over the distinct workers instead of the reports.
CalcPoolStatsPerWorker(deque) ==
    LET acc == FoldReports(deque, [h |-> 0, t |-> 0, w |-> {}])
    IN  IF deque # <<>>
        THEN [workers |-> Cardinality(acc.w),
              avg_hashrate |-> F64Div(acc.h, Cardinality(acc.w)),
              avg_temp |-> F64Div(acc.t, Cardinality(acc.w))]
        ELSE PoolStatsDefault

CalcPoolStats(deque) ==
    LET acc == FoldReports(deque, [h |-> 0, t |-> 0, w |-> {}])
    IN  IF deque # <<>>
        THEN [workers |-> Cardinality(acc.w),
              avg_hashrate |-> F64Div(acc.h, Len(deque)),
              avg_temp |-> F64Div(acc.t, Len(deque))]
        ELSE PoolStatsDefault

ReportsOf(deque) == {deque[i] : i \in 1..Len(deque)}

\* One entry of a pass's BTreeMap<String, PoolStats>.  `pass` and `from` are
\* history fields (the pass that computed the entry, the reports folded into
\* it); they are not part of the serialized value.
StatsEntry(deque, pass) ==
    [stats |-> CalcPoolStats(deque), pass |-> pass, from |-> ReportsOf(deque)]

\* serde_json::to_string(&AllStats { pools }): the entries of the BTreeMap in
\* key order, each with its key.
to_string(pools) ==
    LET keys == SelectSeq(PoolOrder, LAMBDA k : k \in DOMAIN pools)
    IN  [i \in 1..Len(keys) |->
            [pool |-> keys[i], workers |-> pools[keys[i]].stats.workers,
             avg_hashrate |-> pools[keys[i]].stats.avg_hashrate,
             avg_temp |-> pools[keys[i]].stats.avg_temp,
             pass |-> pools[keys[i]].pass, from |-> pools[keys[i]].from]]

\* serde_json::to_string(&AllStats::default())
EmptyStatsJson == to_string(<<>>)

\* ------------------------------------------------------------- state ----
VARIABLES
    strategy,       \* which binary runs
    now,            \* SystemTime::now() in seconds
    source_open,    \* the Router (with its AppState) still serves requests
    faulted,        \* history: the runtime has dropped a spawned task
    hpc,            \* per handler: position in post_report
    hreq,           \* per handler: the Report being ingested
    hspawned,       \* history (B): per handler, or_insert_with ran its closure
    nreports,       \* requests started so far
    acked,          \* history: ids of the reports answered 200 OK
    report_ch,      \* A: the mpsc channel report_tx -> report_rx
    actor_pc,       \* A: position of data_actor
    registry,       \* B: keys of the ActorRegistry map
    lock_writer,    \* B: handler holding the registry write lock, or 0
    mailbox,        \* B: pool -> commands queued on that pool's channel
    actor_alive,    \* B: pools whose pool_actor task is running
    to_query,       \* B: actors_to_query not yet visited by the loop
    asked,          \* B: pool_names_for_replies
    dead_pools,     \* B: dead_pools_to_remove
    replies,        \* B: pool -> value sent on that pass's oneshot channel
    report_queue,   \* C: the SegQueue
    new_reports,    \* C: the Vec the queue is drained into
    agg_pc,         \* B, C: position of stats_aggregator_actor
    pools_data,     \* pool -> deque (A pools_data, B each actor's reports, C pool_data)
    stats,          \* the watch channel's value (a JSON document)
    stats_version,  \* the watch channel's version: sends that stored a value
    response,       \* body of the latest GET /stats response
    response_version, \* history: the channel's version at that response
    read_no,        \* history: parity of the GET /stats requests answered
    pass_no,        \* history: parity of the latest compute pass
    tick_acked,     \* history (B, C): `acked` when the latest pass's tick fired
    evicted,        \* history: id -> times a prune removed it from a deque
    seen,           \* history (A, B): pools whose deque has had a push_back
    tick_seen       \* history (B): `seen` when the latest pass's tick fired

envvars == <<strategy, now, source_open, faulted>>
hvars == <<hpc, hreq, hspawned, nreports, acked>>
avars == <<report_ch, actor_pc>>
bvars == <<registry, lock_writer, mailbox, actor_alive, to_query, asked,
           dead_pools, replies>>
cvars == <<report_queue, new_reports>>
pvars == <<agg_pc, pools_data, stats, stats_version, pass_no, tick_acked,
           evicted, seen, tick_seen>>
rvars == <<response, response_version, read_no>>

vars == <<envvars, hvars, avars, bvars, cvars, pvars, rvars>>

Init ==
    /\ strategy \in Strategies
    /\ now = 0
    /\ source_open = TRUE
    /\ faulted = FALSE
    /\ hpc = [h \in Handlers |-> "idle"]
    /\ hreq = [h \in Handlers |-> NoReport]
    /\ hspawned = [h \in Handlers |-> FALSE]
    /\ nreports = 0
    /\ acked = {}
    /\ report_ch = <<>>
    /\ actor_pc = "loop"
    /\ registry = {}
    /\ lock_writer = 0
    /\ mailbox = <<>>
    /\ actor_alive = {}
    /\ to_query = <<>>
    /\ asked = {}
    /\ dead_pools = {}
    /\ replies = <<>>
    /\ report_queue = <<>>
    /\ new_reports = <<>>
    /\ agg_pc = "tick"
    /\ pools_data = <<>>
    /\ stats = EmptyStatsJson
    /\ stats_version = 0
    /\ response = EmptyStatsJson
    /\ response_version = 0
    /\ read_no = 0
    /\ pass_no = 0
    /\ tick_acked = {}
    /\ evicted = [i \in ReportIds |-> 0]
    /\ seen = {}
    /\ tick_seen = {}

\* Occurrences of report i in the deques of `data`.
CountIn(data, i) ==
    Cardinality({kj \in {<<k, j>> : k \in DOMAIN data, j \in 1..MaxReports} :
                    kj[2] <= Len(data[kj[1]]) /\ data[kj[1]][kj[2]].id = i})

\* The removals of a prune pass, added to the history.
Evict(before, after) ==
    [i \in ReportIds |-> evicted[i] + CountIn(before, i) - CountIn(after, i)]

\* insert instead of entry().or_default(): the pool's deque is replaced.
PushBackOverwriting(data, report) ==
    [k \in DOMAIN data \cup {report.pool} |->
        IF k = report.pool THEN <<report>> ELSE data[k]]

\* A push that appends the report to every deque of the map.
PushBackEverywhere(data, report) ==
    [k \in DOMAIN data \cup {report.pool} |->
        Append(IF k \in DOMAIN data THEN data[k] ELSE <<>>, report)]

\* pools_data.entry(pool).or_default().push_back(report)
PushBack(data, report) ==
    [k \in DOMAIN data \cup {report.pool} |->
        IF k = report.pool
        THEN Append(IF k \in DOMAIN data THEN data[k] ELSE <<>>, report)
        ELSE data[k]]

\* A publish that keeps the previous document's entries for the pools the
\* new one lacks.
WatchSendMerging(json) ==
    IF source_open
    THEN SelectSeq(stats, LAMBDA e : \A i \in 1..Len(json) : json[i].pool # e.pool) \o json
    ELSE stats

\* watch::Sender::send: stores the value unless every receiver is gone (the
\* receivers live in AppState); the caller ignores the error with .ok().
WatchSend(json) == IF source_open THEN json ELSE stats

\* The version after that send: a stored value increments it.
WatchVersion ==
    IF source_open /\ stats_version < MaxVersion THEN stats_version + 1
    ELSE stats_version

\* SystemTime::now() between two reads: the wall clock moves (it is not
\* monotonic).
clock_step ==
    /\ \E t \in 0..MaxNow : t # now /\ now' = t
    /\ UNCHANGED <<strategy, source_open, faulted, hvars, avars, bvars, cvars, pvars, rvars>>

\* axum::serve ends: the Router and its AppState (report_tx, the registry and
\* queue handles, stats_rx) are dropped once no handler is running.
close_source ==
    /\ source_open
    /\ \A h \in Handlers : hpc[h] = "idle"
    /\ source_open' = FALSE
    /\ UNCHANGED <<strategy, now, faulted, hvars, avars, bvars, cvars, pvars, rvars>>

\* A handler that answers with the document the channel was created with.
get_stats_initial ==
    /\ source_open
    /\ response' = EmptyStatsJson
    /\ response_version' = 0
    /\ read_no' = 1 - read_no
    /\ UNCHANGED <<envvars, hvars, avars, bvars, cvars, pvars>>

\* get_stats: state.stats_rx.borrow().clone(), one read under the watch
\* channel's lock.
get_stats ==
    /\ source_open
    /\ response' = stats
    /\ response_version' = stats_version
    /\ read_no' = 1 - read_no
    /\ UNCHANGED <<envvars, hvars, avars, bvars, cvars, pvars>>

\* A request arrives: axum deserializes the body and calls post_report.  The
\* body's fields are drawn from the given sets.
Request(h, workers, pools, timestamps) ==
    /\ source_open
    /\ hpc[h] = "idle"
    /\ nreports < MaxReports
    /\ \E w \in workers, p \in pools, ts \in timestamps :
          hreq' = [hreq EXCEPT ![h] = Report(nreports + 1, w, p, ts)]
    /\ nreports' = nreports + 1
    /\ hpc' = [hpc EXCEPT ![h] = "start"]
    /\ UNCHANGED <<envvars, hspawned, acked, avars, bvars, cvars, pvars, rvars>>

post_report_begin(h) == Request(h, Workers, Pools, 0..MaxTs)

\* The same, with every report from worker w1 and stamped 0: what a report
\* carries besides its pool decides no step of the ingestion path.
post_report_begin_w1(h) == Request(h, {"w1"}, Pools, {0})

\* The handler returns `status`.
Respond(h, status) ==
    /\ hpc' = [hpc EXCEPT ![h] = "idle"]
    /\ hreq' = [hreq EXCEPT ![h] = NoReport]
    /\ acked' = IF status = "200" THEN acked \cup {hreq[h].id} ELSE acked
    /\ hspawned' = [hspawned EXCEPT ![h] = FALSE]
    /\ UNCHANGED nreports

\* ------------------------------------------------------ Strategy A ------
\* report_rx is dropped when data_actor returns or its task is dropped.
ReportRxClosed == actor_pc # "loop"

\* try_send in place of send().await: a full channel is answered 500.
post_report_A_try_send(h) ==
    /\ strategy = "A"
    /\ hpc[h] = "start"
    /\ IF ReportRxClosed \/ Len(report_ch) >= ReportChannelCap
       THEN /\ Respond(h, "500")
            /\ UNCHANGED report_ch
       ELSE /\ report_ch' = Append(report_ch, hreq[h])
            /\ Respond(h, "200")
    /\ UNCHANGED <<envvars, actor_pc, bvars, cvars, pvars, rvars>>

\* state.report_tx.send(report).await: Err once the receiver is gone, else
\* the report is queued as soon as the channel has room.
post_report_A(h) ==
    /\ strategy = "A"
    /\ hpc[h] = "start"
    /\ IF ReportRxClosed
       THEN /\ Respond(h, "500")
            /\ UNCHANGED report_ch
       ELSE /\ Len(report_ch) < ReportChannelCap
            /\ report_ch' = Append(report_ch, hreq[h])
            /\ Respond(h, "200")
    /\ UNCHANGED <<envvars, actor_pc, bvars, cvars, pvars, rvars>>

\* Branch 1 pushing the report at the head of the channel without taking it
\* off the channel.
data_actor_recv_peek ==
    /\ strategy = "A"
    /\ actor_pc = "loop"
    /\ report_ch # <<>>
    /\ pools_data' = PushBack(pools_data, Head(report_ch))
    /\ seen' = seen \cup {Head(report_ch).pool}
    /\ UNCHANGED <<envvars, hvars, avars, bvars, cvars, agg_pc, stats,
                   stats_version, pass_no, tick_acked, evicted, tick_seen, rvars>>

\* select! branch 1: Some(report) = report_rx.recv()
data_actor_recv ==
    /\ strategy = "A"
    /\ actor_pc = "loop"
    /\ report_ch # <<>>
    /\ pools_data' = PushBack(pools_data, Head(report_ch))
    /\ report_ch' = Tail(report_ch)
    /\ seen' = seen \cup {Head(report_ch).pool}
    /\ UNCHANGED <<envvars, hvars, actor_pc, bvars, cvars, agg_pc, stats,
                   stats_version, pass_no, tick_acked, evicted, tick_seen, rvars>>

\* recv() yields None (every sender dropped, nothing queued): branch 1's
\* pattern fails and select! disables the branch.
RecvBranchDisabled == report_ch = <<>> /\ ~source_open

\* `_ = calculation_interval.tick()` matches every Instant: select! never
\* disables branch 2.
TickBranchDisabled == FALSE

\* Step 1 followed by the removal of the deques it emptied.
PruneAllFrontDropEmpty(data, expiration_ts) ==
    [k \in {p \in DOMAIN data : PruneFront(data[p], expiration_ts) # <<>>} |->
        PruneFront(data[k], expiration_ts)]

\* The deques after step 1 of the map closure, for every pool.
PruneAllFront(data, expiration_ts) ==
    [k \in DOMAIN data |-> PruneFront(data[k], expiration_ts)]

\* select! with `biased;`: the tick branch is polled only when recv() is not
\* ready.
data_actor_tick_biased ==
    /\ strategy = "A"
    /\ actor_pc = "loop"
    /\ report_ch = <<>>
    /\ LET pruned == PruneAllFront(pools_data, ExpirationTs(now))
           pools == [k \in DOMAIN pruned |-> StatsEntry(pruned[k], 1 - pass_no)]
       IN  /\ pools_data' = pruned
           /\ stats' = WatchSend(to_string(pools))
           /\ stats_version' = WatchVersion
           /\ pass_no' = 1 - pass_no
           /\ evicted' = Evict(pools_data, pruned)
           /\ UNCHANGED <<actor_pc, agg_pc, tick_acked, seen, tick_seen>>
    /\ UNCHANGED <<envvars, hvars, report_ch, bvars, cvars, rvars>>

\* select! branch 2 (the tick), and the `else` branch, which runs only when
\* every branch is disabled.
data_actor_tick ==
    /\ strategy = "A"
    /\ actor_pc = "loop"
    /\ IF RecvBranchDisabled /\ TickBranchDisabled
       THEN /\ actor_pc' = "done"
            /\ UNCHANGED pvars
       ELSE LET pruned == PruneAllFront(pools_data, ExpirationTs(now))
                pools == [k \in DOMAIN pruned |-> StatsEntry(pruned[k], 1 - pass_no)]
            IN  /\ pools_data' = pruned
                /\ stats' = WatchSend(to_string(pools))
                /\ stats_version' = WatchVersion
                /\ pass_no' = 1 - pass_no
                /\ evicted' = Evict(pools_data, pruned)
                /\ UNCHANGED <<actor_pc, agg_pc, tick_acked, seen, tick_seen>>
    /\ UNCHANGED <<envvars, hvars, report_ch, bvars, cvars, rvars>>

\* The runtime shuts down and drops the spawned data_actor task: report_rx
\* and the deques go with it.
data_actor_dropped ==
    /\ strategy = "A"
    /\ actor_pc = "loop"
    /\ actor_pc' = "dropped"
    /\ faulted' = TRUE
    /\ report_ch' = <<>>
    /\ pools_data' = <<>>
    /\ UNCHANGED <<strategy, now, source_open, hvars, bvars, cvars, agg_pc,
                   stats, stats_version, pass_no, tick_acked, evicted, seen,
                   tick_seen, rvars>>

NextA ==
    \/ \E h \in Handlers : post_report_A(h)
    \/ data_actor_recv
    \/ data_actor_tick
    \/ data_actor_dropped

\* ------------------------------------------------------ Strategy B ------
AddReport(report) == [kind |-> "AddReport", report |-> report]
CalculateStats(pass) == [kind |-> "CalculateStats", pass |-> pass]

\* A pool's channel is closed once its pool_actor (the only receiver) is gone.
MailboxClosed(k) == k \notin actor_alive

\* Senders of pool k's channel: the registry entry and the clone the
\* aggregator still holds for an actor it has not visited yet.
AllSendersDropped(k) ==
    k \notin registry /\ \A i \in 1..Len(to_query) : to_query[i] # k

\* state.actor_registry.write().await, then registry.entry(pool)
\* .or_insert_with(spawn): the write guard lives until post_report returns.
post_report_B_lock(h) ==
    /\ strategy = "B"
    /\ hpc[h] = "start"
    /\ lock_writer = 0
    /\ lock_writer' = h
    /\ hpc' = [hpc EXCEPT ![h] = "send"]
    /\ LET k == hreq[h].pool
       IN  IF k \in registry
           THEN UNCHANGED <<registry, mailbox, actor_alive, pools_data, hspawned>>
           ELSE /\ registry' = registry \cup {k}
                /\ hspawned' = [hspawned EXCEPT ![h] = TRUE]
                /\ mailbox' = [p \in DOMAIN mailbox \cup {k} |->
                                  IF p = k THEN <<>> ELSE mailbox[p]]
                /\ actor_alive' = actor_alive \cup {k}
                /\ pools_data' = [p \in DOMAIN pools_data \cup {k} |->
                                     IF p = k THEN <<>> ELSE pools_data[p]]
    /\ UNCHANGED <<envvars, hreq, nreports, acked, avars, to_query, asked,
                   dead_pools, replies, cvars, agg_pc, stats, stats_version,
                   pass_no, tick_acked, evicted, seen, tick_seen, rvars>>

\* A send that removes the registry entry of the dead actor when it fails.
post_report_B_send_reaping(h) ==
    /\ strategy = "B"
    /\ hpc[h] = "send"
    /\ LET k == hreq[h].pool
       IN  IF MailboxClosed(k)
           THEN /\ Respond(h, "500")
                /\ registry' = registry \ {k}
                /\ UNCHANGED mailbox
           ELSE /\ Len(mailbox[k]) < PoolChannelCap
                /\ mailbox' = [mailbox EXCEPT ![k] = Append(@, AddReport(hreq[h]))]
                /\ Respond(h, "200")
                /\ UNCHANGED registry
    /\ lock_writer' = 0
    /\ UNCHANGED <<envvars, avars, actor_alive, to_query, asked,
                   dead_pools, replies, cvars, pvars, rvars>>

\* A send after which the write guard is never dropped.
post_report_B_send_leaking(h) ==
    /\ strategy = "B"
    /\ hpc[h] = "send"
    /\ LET k == hreq[h].pool
       IN  IF MailboxClosed(k)
           THEN /\ Respond(h, "500")
                /\ UNCHANGED mailbox
           ELSE /\ Len(mailbox[k]) < PoolChannelCap
                /\ mailbox' = [mailbox EXCEPT ![k] = Append(@, AddReport(hreq[h]))]
                /\ Respond(h, "200")
    /\ UNCHANGED <<envvars, avars, registry, lock_writer, actor_alive, to_query,
                   asked, dead_pools, replies, cvars, pvars, rvars>>

\* actor_tx.send(AddReport(report)).await under the write guard, then return.
post_report_B_send(h) ==
    /\ strategy = "B"
    /\ hpc[h] = "send"
    /\ LET k == hreq[h].pool
       IN  IF MailboxClosed(k)
           THEN /\ Respond(h, "500")
                /\ UNCHANGED mailbox
           ELSE /\ Len(mailbox[k]) < PoolChannelCap
                /\ mailbox' = [mailbox EXCEPT ![k] = Append(@, AddReport(hreq[h]))]
                /\ Respond(h, "200")
    /\ lock_writer' = 0
    /\ UNCHANGED <<envvars, avars, registry, actor_alive, to_query, asked,
                   dead_pools, replies, cvars, pvars, rvars>>

\* What a oneshot receiver resolves to: the value sent, or RecvError once the
\* sender was dropped unused.
Ok(value) == [ok |-> TRUE, value |-> value]

RecvError == [ok |-> FALSE]

Without(f, k) == [p \in DOMAIN f \ {k} |-> f[p]]

With(f, k, v) == [p \in DOMAIN f \cup {k} |-> IF p = k THEN v ELSE f[p]]

\* One turn of `while let Some(command) = command_rx.recv().await`.
pool_actor_recv(k) ==
    /\ strategy = "B"
    /\ k \in actor_alive
    /\ mailbox[k] # <<>> \/ AllSendersDropped(k)
    /\ IF mailbox[k] = <<>>
       THEN /\ actor_alive' = actor_alive \ {k}
            /\ pools_data' = Without(pools_data, k)
            /\ UNCHANGED <<mailbox, replies, evicted, seen>>
       ELSE LET command == Head(mailbox[k])
            IN  /\ mailbox' = [mailbox EXCEPT ![k] = Tail(@)]
                /\ UNCHANGED actor_alive
                /\ IF command.kind = "AddReport"
                   THEN /\ pools_data' = [pools_data EXCEPT
                                             ![k] = Append(@, command.report)]
                        /\ seen' = seen \cup {k}
                        /\ UNCHANGED <<replies, evicted>>
                   ELSE LET reports == Retain(pools_data[k], ExpirationTs(now))
                        IN  /\ pools_data' = [pools_data EXCEPT ![k] = reports]
                            /\ replies' = With(replies, k,
                                               Ok(StatsEntry(reports, command.pass)))
                            /\ evicted' = Evict(pools_data, pools_data')
                            /\ UNCHANGED seen
    /\ UNCHANGED <<envvars, hvars, avars, registry, lock_writer, to_query,
                   asked, dead_pools, cvars, agg_pc, stats, stats_version,
                   pass_no, tick_acked, tick_seen, rvars>>

\* The runtime shuts down and drops a spawned pool_actor task: its receiver,
\* the commands queued on it (with their oneshot senders) and its deque go.
pool_actor_dropped(k) ==
    /\ strategy = "B"
    /\ k \in actor_alive
    /\ actor_alive' = actor_alive \ {k}
    /\ faulted' = TRUE
    /\ mailbox' = [mailbox EXCEPT ![k] = <<>>]
    /\ pools_data' = Without(pools_data, k)
    /\ replies' = IF \E i \in 1..Len(mailbox[k]) : mailbox[k][i].kind = "CalculateStats"
                  THEN With(replies, k, RecvError)
                  ELSE replies
    /\ UNCHANGED <<strategy, now, source_open, hvars, avars, registry,
                   lock_writer, to_query, asked, dead_pools, cvars, agg_pc,
                   stats, stats_version, pass_no, tick_acked, evicted, seen,
                   tick_seen, rvars>>

\* The orders in which a HashMap of these keys can be iterated.
Orders(keys) ==
    {o \in UNION {[1..n -> keys] : n \in {Cardinality(keys)}} :
        \A i, j \in DOMAIN o : i # j => o[i] # o[j]}

\* interval.tick().await; phase 1 under the read lock: an empty registry
\* publishes the default AllStats and continues, otherwise the (name, sender)
\* pairs are copied and the lock released.
aggregator_collect ==
    /\ strategy = "B"
    /\ agg_pc = "tick"
    /\ lock_writer = 0
    /\ pass_no' = 1 - pass_no
    /\ tick_acked' = acked
    /\ tick_seen' = seen
    /\ IF registry = {}
       THEN /\ stats' = WatchSend(EmptyStatsJson)
            /\ stats_version' = WatchVersion
            /\ UNCHANGED <<agg_pc, to_query>>
       ELSE /\ to_query' \in Orders(registry)
            /\ agg_pc' = "query"
            /\ UNCHANGED <<stats, stats_version>>
    /\ UNCHANGED <<envvars, hvars, avars, registry, lock_writer, mailbox,
                   actor_alive, asked, dead_pools, replies, cvars, pools_data,
                   evicted, seen, rvars>>

\* Phase 2 with try_send: a full mailbox counts as a dead actor.
aggregator_query_try_send ==
    /\ strategy = "B"
    /\ agg_pc = "query"
    /\ LET k == Head(to_query)
       IN  /\ IF MailboxClosed(k) \/ Len(mailbox[k]) >= PoolChannelCap
              THEN /\ dead_pools' = dead_pools \cup {k}
                   /\ UNCHANGED <<mailbox, asked>>
              ELSE /\ mailbox' = [mailbox EXCEPT
                                     ![k] = Append(@, CalculateStats(pass_no))]
                   /\ asked' = asked \cup {k}
                   /\ UNCHANGED dead_pools
           /\ to_query' = Tail(to_query)
           /\ agg_pc' = IF Tail(to_query) # <<>> THEN "query"
                        ELSE IF dead_pools' # {} THEN "reap" ELSE "join"
    /\ UNCHANGED <<envvars, hvars, avars, registry, lock_writer, actor_alive,
                   replies, cvars, pools_data, stats, stats_version, pass_no,
                   tick_acked, evicted, seen, tick_seen, rvars>>

\* Phase 2, one iteration of `for (pool_name, actor_tx) in actors_to_query`.
aggregator_query ==
    /\ strategy = "B"
    /\ agg_pc = "query"
    /\ LET k == Head(to_query)
       IN  /\ IF MailboxClosed(k)
              THEN /\ dead_pools' = dead_pools \cup {k}
                   /\ UNCHANGED <<mailbox, asked>>
              ELSE /\ Len(mailbox[k]) < PoolChannelCap
                   /\ mailbox' = [mailbox EXCEPT
                                     ![k] = Append(@, CalculateStats(pass_no))]
                   /\ asked' = asked \cup {k}
                   /\ UNCHANGED dead_pools
           /\ to_query' = Tail(to_query)
           /\ agg_pc' = IF Tail(to_query) # <<>> THEN "query"
                        ELSE IF dead_pools' # {} THEN "reap" ELSE "join"
    /\ UNCHANGED <<envvars, hvars, avars, registry, lock_writer, actor_alive,
                   replies, cvars, pools_data, stats, stats_version, pass_no,
                   tick_acked, evicted, seen, tick_seen, rvars>>

\* Phase 2a taking the write lock and removing nothing.
aggregator_reap_skip ==
    /\ strategy = "B"
    /\ agg_pc = "reap"
    /\ lock_writer = 0
    /\ agg_pc' = "join"
    /\ UNCHANGED <<envvars, hvars, avars, registry, lock_writer, mailbox,
                   actor_alive, to_query, asked, dead_pools, replies, cvars,
                   pools_data, stats, stats_version, pass_no, tick_acked,
                   evicted, seen, tick_seen, rvars>>

\* Phase 2a: actor_registry.write().await, remove every dead pool.
aggregator_reap ==
    /\ strategy = "B"
    /\ agg_pc = "reap"
    /\ lock_writer = 0
    /\ registry' = registry \ dead_pools
    /\ agg_pc' = "join"
    /\ UNCHANGED <<envvars, hvars, avars, lock_writer, mailbox, actor_alive,
                   to_query, asked, dead_pools, replies, cvars, pools_data,
                   stats, stats_version, pass_no, tick_acked, evicted, seen,
                   tick_seen, rvars>>

\* final_pools: the replies that arrived as Ok.
FinalPools(names, got) ==
    [k \in {p \in names : got[p].ok} |-> got[k].value]

\* Phases 3 and 4: join_all(reply_channels).await, assemble, publish.
aggregator_join ==
    /\ strategy = "B"
    /\ agg_pc = "join"
    /\ asked \subseteq DOMAIN replies
    /\ stats' = WatchSend(to_string(FinalPools(asked, replies)))
    /\ stats_version' = WatchVersion
    /\ agg_pc' = "tick"
    /\ asked' = {}
    /\ dead_pools' = {}
    /\ replies' = <<>>
    /\ UNCHANGED <<envvars, hvars, avars, registry, lock_writer, mailbox,
                   actor_alive, to_query, cvars, pools_data, pass_no,
                   tick_acked, evicted, seen, tick_seen, rvars>>

NextB ==
    \/ \E h \in Handlers : post_report_B_lock(h)
    \/ \E h \in Handlers : post_report_B_send(h)
    \/ \E k \in Pools : pool_actor_recv(k)
    \/ \E k \in Pools : pool_actor_dropped(k)
    \/ aggregator_collect
    \/ aggregator_query
    \/ aggregator_reap
    \/ aggregator_join

\* ------------------------------------------------------ Strategy C ------
\* state.report_queue.push(report); StatusCode::OK
post_report_C(h) ==
    /\ strategy = "C"
    /\ hpc[h] = "start"
    /\ report_queue' = Append(report_queue, hreq[h])
    /\ Respond(h, "200")
    /\ UNCHANGED <<envvars, avars, bvars, new_reports, pvars, rvars>>

\* interval.tick().await, then Vec::with_capacity(report_queue.len())
aggregator_tick ==
    /\ strategy = "C"
    /\ agg_pc = "tick"
    /\ agg_pc' = "drain"
    /\ new_reports' = <<>>
    /\ tick_acked' = acked
    /\ UNCHANGED <<envvars, hvars, avars, bvars, report_queue, pools_data,
                   stats, stats_version, pass_no, evicted, seen, tick_seen, rvars>>

\* The closure of the parallel fold, over one partition of new_reports.
RECURSIVE FoldByPool(_, _)
FoldByPool(reports, map) ==
    IF reports = <<>> THEN map
    ELSE FoldByPool(Tail(reports), PushBack(map, Head(reports)))

\* The closure of reduce: map1.entry(key).or_default().extend(val)
ExtendAll(map1, map2) ==
    [k \in DOMAIN map1 \cup DOMAIN map2 |->
        (IF k \in DOMAIN map1 THEN map1[k] ELSE <<>>)
        \o (IF k \in DOMAIN map2 THEN map2[k] ELSE <<>>)]

\* Step 2 with the Vec split in two partitions at `cut`.
GroupByPool(reports, cut) ==
    ExtendAll(FoldByPool(SubSeq(reports, 1, cut), <<>>),
              FoldByPool(SubSeq(reports, cut + 1, Len(reports)), <<>>))

\* Step 4, the deques: deque.retain(..) for every pool.
RetainAll(data, expiration_ts) ==
    [k \in DOMAIN data |-> Retain(data[k], expiration_ts)]

\* Step 5: pool_data.retain(|_, deque| !deque.is_empty())
DropEmpty(data) == [k \in {p \in DOMAIN data : data[p] # <<>>} |-> data[k]]

\* The pools a pass of C serializes: the map collected in step 4, which is
\* built before step 5 runs.
PublishedPoolsC(pruned, pass) ==
    [k \in DOMAIN pruned |-> StatsEntry(pruned[k], pass)]

\* One turn of `while let Some(report) = report_queue.pop()`; on None, steps
\* 2 to 5 and the publish, which touch nothing another task can see but the
\* watch channel.
aggregator_drain ==
    /\ strategy = "C"
    /\ agg_pc = "drain"
    /\ IF report_queue # <<>>
       THEN /\ new_reports' = Append(new_reports, Head(report_queue))
            /\ report_queue' = Tail(report_queue)
            /\ UNCHANGED pvars
       ELSE \E cut \in 0..Len(new_reports) :
            LET merged == ExtendAll(pools_data, GroupByPool(new_reports, cut))
                pruned == RetainAll(merged, ExpirationTs(now))
            IN  /\ pools_data' = DropEmpty(pruned)
                /\ stats' = WatchSend(to_string(PublishedPoolsC(pruned, 1 - pass_no)))
                /\ stats_version' = WatchVersion
                /\ pass_no' = 1 - pass_no
                /\ evicted' = Evict(merged, pruned)
                /\ new_reports' = <<>>
                /\ agg_pc' = "tick"
                /\ UNCHANGED <<report_queue, tick_acked, seen, tick_seen>>
    /\ UNCHANGED <<envvars, hvars, avars, bvars, rvars>>

NextC ==
    \/ \E h \in Handlers : post_report_C(h)
    \/ aggregator_tick
    \/ aggregator_drain

Next ==
    \/ clock_step
    \/ close_source
    \/ \E h \in Handlers : post_report_begin(h)
    \/ NextA
    \/ NextB
    \/ NextC

Spec == Init /\ [][Next]_vars

\* What the scheduling guarantees: tokio runs every task that is ready,
\* select! picks among its ready branches at random, and the RwLock queues
\* its waiters in FIFO order.  Requests, the wall clock, the end of the
\* server and the runtime dropping a task are the environment's.
Fairness ==
    /\ \A h \in Handlers :
          /\ WF_vars(post_report_A(h))
          /\ SF_vars(post_report_B_lock(h))
          /\ WF_vars(post_report_B_send(h))
          /\ WF_vars(post_report_C(h))
    /\ WF_vars(data_actor_recv)
    /\ WF_vars(data_actor_tick)
    /\ \A k \in Pools : WF_vars(pool_actor_recv(k))
    /\ SF_vars(aggregator_collect)
    /\ WF_vars(aggregator_query)
    /\ SF_vars(aggregator_reap)
    /\ WF_vars(aggregator_join)
    /\ WF_vars(aggregator_tick)
    /\ WF_vars(aggregator_drain)

\* The same tasks with the wall clock standing still and uniform reports.
LiveNext ==
    \/ close_source
    \/ \E h \in Handlers : post_report_begin_w1(h)
    \/ NextA
    \/ NextB
    \/ NextC

LiveSpec == Init /\ [][LiveNext]_vars /\ Fairness

\* The tasks of LiveNext with the wall clock and a client polling GET /stats.
ReadNext ==
    \/ LiveNext
    \/ clock_step
    \/ get_stats

ReadSpec == Init /\ [][ReadNext]_vars

\* ------------------------------------------------------------ claims ----
\* What the steps of a behaviour are, for the properties below.
ComputePassA == strategy = "A" /\ pass_no' # pass_no
ComputePassC == strategy = "C" /\ pass_no' # pass_no
\* pool k's actor answers a CalculateStats command in this step
ReplyComputed(k) ==
    /\ strategy = "B"
    /\ k \notin DOMAIN replies
    /\ k \in DOMAIN replies'
    /\ replies'[k].ok

\* The reports folded into the entries of a JSON document.
FromOf(json) == UNION {json[i].from : i \in 1..Len(json)}

AllAfter(reports, ts) == \A r \in reports : r.timestamp >= ts

\* C1: in every strategy, right after a compute pass on a key with threshold
\* T = max(0, now - expiration_secs), every report still in that key's deque
\* has timestamp >= T, and no report with timestamp < T is folded into the
\* PoolStats the pass produces.
C1_WindowingAfterPass ==
    [][ /\ (ComputePassA \/ ComputePassC) =>
            /\ \A k \in DOMAIN pools_data' :
                  AllAfter(ReportsOf(pools_data'[k]), ExpirationTs(now))
            /\ source_open => AllAfter(FromOf(stats'), ExpirationTs(now))
        /\ \A k \in Pools : ReplyComputed(k) =>
            /\ AllAfter(ReportsOf(pools_data'[k]), ExpirationTs(now))
            /\ AllAfter(replies'[k].value.from, ExpirationTs(now)) ]_vars

\* Reports accepted by a handler and not yet pushed on a deque.
InTransit ==
    ReportsOf(report_ch) \cup ReportsOf(report_queue) \cup ReportsOf(new_reports)
    \cup UNION {{mailbox[k][j].report :
                    j \in {n \in 1..Len(mailbox[k]) : mailbox[k][n].kind = "AddReport"}} :
                k \in DOMAIN mailbox}

\* Occurrences of report i in a sequence of reports.
CountSeq(reports, i) == Cardinality({j \in 1..Len(reports) : reports[j].id = i})

\* Occurrences of report i on its way to a deque.
CountTransit(i) ==
    CountSeq(report_ch, i) + CountSeq(report_queue, i) + CountSeq(new_reports, i)
    + Cardinality({kj \in {<<k, j>> : k \in DOMAIN mailbox, j \in 1..PoolChannelCap} :
                      /\ kj[2] <= Len(mailbox[kj[1]])
                      /\ mailbox[kj[1]][kj[2]].kind = "AddReport"
                      /\ mailbox[kj[1]][kj[2]].report.id = i})

Retained == UNION {ReportsOf(pools_data[k]) : k \in DOMAIN pools_data}

EvictedIds == {i \in ReportIds : evicted[i] > 0}

Quiescent ==
    /\ nreports = MaxReports
    /\ \A h \in Handlers : hpc[h] = "idle"
    /\ InTransit = {}

\* C2: in every strategy, with no task dropped, every report answered 200 OK
\* is pushed on its own pool's deque exactly once: at every moment it is
\* either still queued, or in that deque, or evicted by a prune, once in
\* all; so when all requests are answered and the queues are empty, the
\* reports retained plus the reports evicted are all the reports sent.
C2_NoLostUpdates ==
    ~faulted =>
        /\ \A i \in acked : CountTransit(i) + CountIn(pools_data, i) + evicted[i] = 1
        /\ \A i \in ReportIds \ acked : CountIn(pools_data, i) + evicted[i] = 0
        /\ \A k \in DOMAIN pools_data : \A r \in ReportsOf(pools_data[k]) : r.pool = k
        /\ Quiescent => Cardinality(Retained) + Cardinality(EvictedIds) = MaxReports

\* Both handlers' reports for one pool have arrived, one evicted since, the
\* other retained.
C2_Witness ==
    /\ ~faulted
    /\ Quiescent
    /\ strategy = "B"
    /\ acked = ReportIds
    /\ \E k \in DOMAIN pools_data :
          /\ Len(pools_data[k]) = MaxReports - 1
          /\ Cardinality(EvictedIds) = 1

\* C3: a GET /stats response is one pass's document: its entries were all
\* computed in the same compute pass, whatever publish it raced with.
C3_SnapshotAtomicity ==
    /\ \A i, j \in 1..Len(response) : response[i].pass = response[j].pass
    /\ \A i, j \in 1..Len(stats) : stats[i].pass = stats[j].pass

\* A client holds the complete two-pool document of the previous pass while
\* the next pass's document is already published.
C3_Witness ==
    /\ Len(response) = 2
    /\ Len(stats) = 2
    /\ response[1].pass # stats[1].pass
    /\ response[2].pass # stats[2].pass

\* The step publishes the result of a compute pass of strategy B.
PublishB ==
    /\ strategy = "B"
    /\ agg_pc' = "tick"
    /\ agg_pc = "join" \/ pass_no' # pass_no

\* The reports answered 200 OK before the tick of the pass that this step
\* completes.
AckedBeforeTick == IF strategy = "A" \/ agg_pc = "tick" THEN acked ELSE tick_acked

InWindow(r) == r.timestamp >= ExpirationTs(now)

\* C4 as claimed: in every strategy, a report answered 200 OK before the tick
\* that starts a pass, and within the window at that pass, is counted in the
\* snapshot that pass publishes.
C4_AckedBeforeTickCounted ==
    [][ (~faulted /\ source_open /\ (ComputePassA \/ ComputePassC \/ PublishB)) =>
            \A r \in Retained \cup InTransit :
                (r.id \in AckedBeforeTick /\ InWindow(r)) => r \in FromOf(stats') ]_vars

\* The two reports of the example: w1 100/60 and w2 200/80, same pool.
ExamplePair(reports) ==
    /\ Cardinality(reports) = 2
    /\ {r.worker_id : r \in reports} = {"w1", "w2"}
    /\ Cardinality({r.pool : r \in reports}) = 1

\* C4 as amended: in B and C as claimed; in A the pass counts the in-window
\* reports data_actor has already received from the channel (a report still
\* queued there when the tick branch runs waits for a later pass).  Two
\* counted reports w1 100/60 and w2 200/80 give workers 2, 150 and 70.
C4_ReceivedBeforeTickCounted ==
    /\ [][ (~faulted /\ source_open /\ (ComputePassA \/ ComputePassC \/ PublishB)) =>
              \A r \in (IF strategy = "A" THEN Retained ELSE Retained \cup InTransit) :
                  (r.id \in AckedBeforeTick /\ InWindow(r)) => r \in FromOf(stats') ]_vars
    /\ [](\A i \in 1..Len(stats) :
              ExamplePair(stats[i].from) =>
                  /\ stats[i].workers = 2
                  /\ stats[i].avg_hashrate = <<150, 1>>
                  /\ stats[i].avg_temp = <<70, 1>>)

\* The example: both reports were answered before the pass and are counted.
C4_Witness ==
    /\ ~faulted
    /\ \E i \in 1..Len(stats) :
          /\ ExamplePair(stats[i].from)
          /\ {r.id : r \in stats[i].from} = acked
          /\ stats[i].pool = "p1"
          /\ stats[i].workers = 2
          /\ stats[i].avg_hashrate = <<150, 1>>

\* C5: a compute pass repeated at once, with the same now and nothing
\* ingested or enqueued in between, publishes the same AllStats again.  The
\* step is the first pass; the second is computed from the state it leaves.
C5_RepeatedPassIdempotent ==
    [][ /\ (ComputePassA /\ source_open) =>
              stats' = to_string([k \in DOMAIN pools_data' |->
                          StatsEntry(PruneFront(pools_data'[k], ExpirationTs(now)),
                                     pass_no')])
        /\ (ComputePassC /\ source_open /\ report_queue' = <<>>) =>
              stats' = to_string(PublishedPoolsC(
                          RetainAll(ExtendAll(pools_data', GroupByPool(<<>>, 0)),
                                    ExpirationTs(now)), pass_no'))
        /\ \A k \in Pools : ReplyComputed(k) =>
              replies'[k].value = StatsEntry(Retain(pools_data'[k], ExpirationTs(now)),
                                             replies'[k].value.pass) ]_vars

\* The channel handler h sends on has lost its receiver.
DeliveryClosed(h) ==
    \/ strategy = "A" /\ ReportRxClosed
    \/ strategy = "B" /\ MailboxClosed(hreq[h].pool)

InFlight(i) == \E h \in Handlers : hreq[h].id = i

\* Report i was answered 500.
Rejected(i) == i <= nreports /\ i \notin acked /\ ~InFlight(i)

\* C6: post_report answers 500 only when the channel it sends on is closed;
\* every request is eventually answered, so with the channel open it is
\* answered 200 OK (A and B wait for room in the channel); in C a request is
\* never answered 500 and its push never waits.
C6_RejectedOnlyWhenClosed ==
    /\ [][ \A h \in Handlers :
              (hpc[h] # "idle" /\ hpc'[h] = "idle" /\ hreq[h].id \notin acked')
                  => DeliveryClosed(h) ]_vars
    /\ \A i \in ReportIds : InFlight(i) ~> (i \in acked \/ Rejected(i))
    /\ [](strategy = "C" =>
              /\ \A i \in ReportIds : ~Rejected(i)
              /\ \A h \in Handlers : hpc[h] = "start" => ENABLED post_report_C(h))

\* One pool's actor is gone: a report for it was answered 500 after another
\* was answered 200 OK, and the second handler is waiting on the registry
\* lock meanwhile.
C6_Witness ==
    /\ strategy = "B"
    /\ \E i \in ReportIds : Rejected(i)
    /\ acked # {}

\* C7: in strategy A, once every report_tx is dropped and the channel is
\* drained, data_actor leaves its loop (it returns, if the runtime has not
\* dropped it before).
C7_ActorTerminates ==
    (strategy = "A" /\ ~source_open /\ report_ch = <<>>) ~> (actor_pc # "loop")

\* C8: in strategies B and C, once the ingestion source is closed the
\* periodic stats_aggregator_actor terminates and, in B, so does every
\* pool_actor.
C8_AggregatorTerminates ==
    (strategy \in {"B", "C"} /\ ~source_open) ~> (agg_pc = "done" /\ actor_alive = {})

\* C9: in strategy C no published document holds a pool whose deque is empty
\* after the pass's prune (an entry with workers = 0).
C9_NoEmptyPoolPublished ==
    strategy = "C" => \A i \in 1..Len(stats) : stats[i].workers # 0 /\ stats[i].from # {}

\* C10: from the same deque and the same now, the pass of A and the pass of
\* B and C retain the same reports and compute the same PoolStats.
C10_SameAggregation ==
    \A k \in DOMAIN pools_data :
        /\ PruneFront(pools_data[k], ExpirationTs(now)) = Retain(pools_data[k], ExpirationTs(now))
        /\ CalcPoolStats(PruneFront(pools_data[k], ExpirationTs(now)))
              = CalcPoolStats(Retain(pools_data[k], ExpirationTs(now)))

RECURSIVE SumHashrate(_)
SumHashrate(reports) ==
    IF reports = {} THEN 0
    ELSE LET r == CHOOSE x \in reports : TRUE
         IN  r.hashrate + SumHashrate(reports \ {r})

RECURSIVE SumTemperature(_)
SumTemperature(reports) ==
    IF reports = {} THEN 0
    ELSE LET r == CHOOSE x \in reports : TRUE
         IN  r.temperature + SumTemperature(reports \ {r})

\* The PoolStats `e` is the aggregate of the n >= 1 reports it was folded
\* from: workers is the number of distinct worker_id values, each average is
\* the sum over the reports divided by n (fractions compared by cross
\* multiplication).
AggregateOf(e) ==
    LET n == Cardinality(e.from)
    IN  /\ e.workers = Cardinality({r.worker_id : r \in e.from})
        /\ e.avg_hashrate[1] * n = SumHashrate(e.from) * e.avg_hashrate[2]
        /\ e.avg_temp[1] * n = SumTemperature(e.from) * e.avg_temp[2]

\* C11: for every pool whose deque holds n >= 1 reports after the prune, the
\* PoolStats of the pass has workers = number of distinct worker_id among
\* them (a worker reporting twice counts once) and avg_hashrate / avg_temp =
\* sum of the retained values divided by n, the number of reports.
C11_AggregationCorrect ==
    /\ \A i \in 1..Len(stats) : stats[i].from # {} => AggregateOf(stats[i])
    /\ \A k \in DOMAIN replies :
          (replies[k].ok /\ replies[k].value.from # {}) =>
              AggregateOf([workers |-> replies[k].value.stats.workers,
                           avg_hashrate |-> replies[k].value.stats.avg_hashrate,
                           avg_temp |-> replies[k].value.stats.avg_temp,
                           from |-> replies[k].value.from])

\* A published entry folded from two reports of one worker w2: workers is
\* 1 and the average 400 / 2.
C11_Witness ==
    \E i \in 1..Len(stats) :
        /\ Cardinality(stats[i].from) = 2
        /\ stats[i].workers = 1
        /\ stats[i].avg_hashrate = <<200, 1>>

\* The pools whose deque had had a report pushed when the pass that this
\* step completes began.
SeenBeforePass == IF strategy = "A" \/ agg_pc = "tick" THEN seen ELSE tick_seen

\* The document holds an entry for pool k, and that entry is all zeros if it
\* was folded from no report.
HoldsPool(json, k) ==
    \E i \in 1..Len(json) :
        /\ json[i].pool = k
        /\ json[i].from = {} =>
              /\ json[i].workers = 0
              /\ json[i].avg_hashrate = F64Zero
              /\ json[i].avg_temp = F64Zero

\* C12: in strategies A and B (no task dropped), once a report for pool K has
\* been pushed on a deque, the document of every later compute pass holds K,
\* and K's entry is workers 0, avg_hashrate 0, avg_temp 0 whenever K's deque
\* is empty at that pass.
C12_KeysNeverDropped ==
    [][ (~faulted /\ source_open /\ (ComputePassA \/ PublishB)) =>
            \A k \in SeenBeforePass :
                /\ HoldsPool(stats', k)
                /\ k \in DOMAIN pools_data'
                /\ (strategy = "A" /\ pools_data'[k] = <<>>) =>
                      \E i \in 1..Len(stats') :
                          stats'[i].pool = k /\ stats'[i].from = {} ]_vars

\* A pool whose only report was evicted is still published, with zeros, by
\* strategy B.
C12_Witness ==
    /\ strategy = "B"
    /\ ~faulted
    /\ \E i \in 1..Len(stats) :
          /\ stats[i].pool \in seen
          /\ stats[i].workers = 0
          /\ stats[i].avg_hashrate = F64Zero
    /\ \E j \in ReportIds : evicted[j] > 0

\* C13: in every strategy a GET /stats returns exactly the value of the most
\* recently completed publish (the empty document before the first one): the
\* value changes only in the step that completes a pass, a read is enabled
\* whatever the position of the pass in progress, and the versions a reader
\* sees never decrease.
C13_ReadsLatestPublish ==
    /\ [][ read_no' # read_no =>
              /\ response' = stats
              /\ response_version' = stats_version ]_vars
    /\ [][ read_no' = read_no => UNCHANGED <<response, response_version>> ]_vars
    /\ [][ <<stats', stats_version'>> # <<stats, stats_version>> =>
              /\ ComputePassA \/ ComputePassC \/ PublishB
              /\ stats_version' >= stats_version ]_vars
    /\ [](stats_version = 0 => stats = EmptyStatsJson)
    /\ [](response_version = 0 => response = EmptyStatsJson)
    /\ [](source_open => ENABLED get_stats)
    /\ [][response_version' >= response_version]_vars

\* A reader has read the second publish while the aggregator of B is in the
\* middle of the next pass.
C13_Witness ==
    /\ strategy = "B"
    /\ agg_pc = "join"
    /\ response_version = MaxVersion
    /\ response = stats
    /\ response # EmptyStatsJson

\* Handler h is suspended in actor_tx.send(..).await: the mailbox of its pool
\* is open and full.
SuspendedOnSend(h) ==
    /\ strategy = "B"
    /\ hpc[h] = "send"
    /\ ~MailboxClosed(hreq[h].pool)
    /\ Len(mailbox[hreq[h].pool]) >= PoolChannelCap

\* C14: in strategy B no task holds the registry lock while it is suspended
\* on a mailbox send: post_report has released the write lock before it
\* awaits the send of AddReport, so a handler waiting on a full mailbox does
\* not keep the other handlers or the aggregator's registry read waiting.
C14_LockNotHeldAcrossSend ==
    \A h \in Handlers : SuspendedOnSend(h) =>
        /\ lock_writer # h
        /\ agg_pc = "tick" => ENABLED aggregator_collect

PoolsOf(json) == {json[i].pool : i \in 1..Len(json)}

\* In this step the aggregator's send of CalculateStats to the next actor
\* fails.
SendFails ==
    /\ strategy = "B"
    /\ agg_pc = "query"
    /\ to_query' # to_query
    /\ MailboxClosed(Head(to_query))

\* The step publishes the result of the queries of a pass of B.
PublishJoined == strategy = "B" /\ agg_pc = "join" /\ agg_pc' = "tick"

\* C15: in strategy B, a pool whose CalculateStats send fails (mailbox
\* closed) is marked dead, its registry entry is removed before the pass
\* publishes, it is absent from the document the pass publishes, and the
\* next post_report for it spawns a fresh pool_actor; a pool whose actor
\* accepted CalculateStats and never replied is omitted from the document
\* and stays in the registry.
C15_DeadWorkerReaped ==
    /\ [][ SendFails => /\ Head(to_query) \in dead_pools'
                        /\ Head(to_query) \notin asked'
                        /\ agg_pc' \in {"query", "reap"} ]_vars
    /\ [][ (strategy = "B" /\ agg_pc = "reap" /\ agg_pc' # "reap") =>
              /\ agg_pc' = "join"
              /\ registry' = registry \ dead_pools ]_vars
    /\ [][ (strategy = "B" /\ agg_pc = "query" /\ agg_pc' = "join") =>
              dead_pools' = {} ]_vars
    /\ [][ PublishJoined =>
              /\ source_open => PoolsOf(stats') \cap dead_pools = {}
              /\ \A k \in asked : ~replies[k].ok =>
                    /\ source_open => k \notin PoolsOf(stats')
                    /\ k \in registry' ]_vars
    /\ [][ \A h \in Handlers :
              (strategy = "B" /\ hpc[h] = "start" /\ hpc'[h] = "send"
               /\ hreq[h].pool \notin registry) =>
                  /\ hreq[h].pool \in registry' \cap actor_alive'
                  /\ pools_data'[hreq[h].pool] = <<>>
                  /\ mailbox'[hreq[h].pool] = <<>> ]_vars

\* A dead pool was reaped, and a post_report arriving before the pass
\* publishes has spawned a fresh actor for it.
C15_Witness ==
    /\ strategy = "B"
    /\ agg_pc = "join"
    /\ \E k \in dead_pools : k \in registry \cap actor_alive /\ pools_data[k] = <<>>

\* In this step handler h answers 500.
RejectStep(h) == hpc[h] # "idle" /\ hpc'[h] = "idle" /\ hreq[h].id \notin acked'

\* What the step leaves alone: the registry, the actors and their channels,
\* every deque, the published document and the other handlers.
RejectFrame(h) ==
    /\ UNCHANGED <<registry, actor_alive, mailbox, report_ch, report_queue,
                   pools_data, stats, stats_version>>
    /\ \A g \in Handlers \ {h} : hpc'[g] = hpc[g] /\ hreq'[g] = hreq[g]
    /\ strategy = "B" => hreq[h].pool \in registry' /\ lock_writer' = 0

\* C16 as claimed: a post_report answered 500 because its channel is closed
\* has left the registry (it inserted no entry, and the ingestion path does
\* not remove the dead actor's entry), every deque and the published
\* document unchanged, and the other handlers are not affected: a handler
\* whose channel is open is answered 200.
C16_RejectedIngestConfined ==
    [][ \A h \in Handlers : RejectStep(h) =>
            /\ DeliveryClosed(h)
            /\ ~hspawned[h]
            /\ RejectFrame(h) ]_vars

\* C16 as amended: as claimed for the failing send; but post_report looks
\* the registry entry up, or inserts it and spawns the actor, before it
\* sends, and an entry inserted by a post_report that is then answered 500
\* stays in the registry.
C16_RejectedSendConfined ==
    [][ \A h \in Handlers : RejectStep(h) =>
            /\ DeliveryClosed(h)
            /\ hspawned[h] => strategy = "B" /\ hreq[h].pool \in registry'
            /\ RejectFrame(h) ]_vars

\* A report for one pool was answered 500 and the dead actor's entry is
\* still in the registry, while the other handler's report for the other
\* pool has been answered 200 and pushed on its deque.
C16_Witness ==
    /\ strategy = "B"
    /\ \E i \in ReportIds : Rejected(i)
    /\ \E k \in registry : k \notin actor_alive
    /\ \E k \in actor_alive : pools_data[k] # <<>>
    /\ dead_pools = {}

\* C17: in every strategy eviction is monotonic: a report that a compute pass
\* removed from a deque is never in a deque (or on its way to one) again,
\* and is folded into no PoolStats computed or published afterwards,
\* whatever is ingested later and however now moves between passes.
C17_EvictionMonotonic ==
    /\ [](\A i \in ReportIds : evicted[i] > 0 =>
              CountIn(pools_data, i) = 0 /\ CountTransit(i) = 0)
    /\ [][ stats' # stats => \A r \in FromOf(stats') : evicted'[r.id] = 0 ]_vars
    /\ [][ \A k \in Pools : ReplyComputed(k) =>
              \A r \in replies'[k].value.from : evicted'[r.id] = 0 ]_vars

\* The first report was evicted; the second has since been ingested and
\* published alone, and the clock is back at 0, where the first report's
\* timestamp would be in the window again.
C17_Witness ==
    /\ evicted[1] = 1
    /\ now = 0
    /\ \E i \in 1..Len(stats) : {r.id : r \in stats[i].from} = {2}
    /\ \A k \in DOMAIN pools_data : Len(pools_data[k]) <= 1

\* C18: the prune threshold is now - expiration_secs when now >=
\* expiration_secs and 0 otherwise (saturating, never wrapping around), so a
\* compute pass run while now < expiration_secs evicts no report.
C18_SaturatingThreshold ==
    /\ [](/\ ExpirationTs(now) = (IF now >= expiration_secs
                                    THEN now - expiration_secs ELSE 0)
          /\ ExpirationTs(now) \in 0..now)
    /\ [][ (now < expiration_secs
            /\ (ComputePassA \/ ComputePassC \/ \E k \in Pools : ReplyComputed(k))) =>
              /\ evicted' = evicted
              /\ strategy = "A" => pools_data' = pools_data
              /\ strategy = "B" =>
                    \A k \in Pools : ReplyComputed(k) =>
                        /\ pools_data'[k] = pools_data[k]
                        /\ replies'[k].value.from = ReportsOf(pools_data[k])
              /\ strategy = "C" =>
                    \A r \in Retained \cup ReportsOf(new_reports) :
                        r \in ReportsOf(pools_data'[r.pool]) ]_vars

\* Before the clock reaches expiration_secs, both reports have been
\* published by a pass and nothing was evicted.
C18_Witness ==
    /\ now < expiration_secs
    /\ stats_version > 0
    /\ {r.id : r \in FromOf(stats)} = ReportIds
    /\ \A i \in ReportIds : evicted[i] = 0

\* A step of one of the tasks of strategy B.
BTaskStep ==
    \/ \E h \in Handlers : post_report_B_lock(h) \/ post_report_B_send(h)
    \/ \E k \in Pools : pool_actor_recv(k)
    \/ aggregator_collect
    \/ aggregator_query
    \/ aggregator_reap
    \/ aggregator_join

\* C19: strategy B is deadlock-free with bounded mailboxes: in no reachable
\* state is every task blocked, and under the scheduler's fairness every
\* post_report that has started returns and every compute pass that has
\* started publishes.
C19_BDeadlockFree ==
    /\ [](strategy = "B" => ENABLED BTaskStep)
    /\ \A i \in ReportIds :
          (strategy = "B" /\ InFlight(i)) ~> (i \in acked \/ Rejected(i))
    /\ (strategy = "B" /\ agg_pc # "tick") ~> (agg_pc = "tick")

\* A handler holds the write lock and waits for room in a full mailbox while
\* the aggregator waits for that pool's reply.
C19_Witness ==
    /\ agg_pc = "join"
    /\ \E h \in Handlers :
          /\ SuspendedOnSend(h)
          /\ lock_writer = h
          /\ hreq[h].pool \in asked \ DOMAIN replies

\* In this step handler h's or_insert_with spawns an actor for its pool.
SpawnStep(h) ==
    /\ strategy = "B"
    /\ hpc[h] = "start"
    /\ hpc'[h] = "send"
    /\ hreq[h].pool \notin registry

\* C20: in strategy B there is at most one live pool_actor, and one registry
\* entry, per pool: every live actor is the one its pool's registry entry
\* sends to, no actor is spawned for a pool that has a live one (also when
\* two post_report for an absent pool race, and when they race with the
\* aggregator's reaping), and reaping removes the entries of dead actors
\* only.
C20_OneWorkerPerKey ==
    /\ [](strategy = "B" => actor_alive \subseteq registry)
    /\ [][ \A h \in Handlers : SpawnStep(h) =>
              /\ hreq[h].pool \notin actor_alive
              /\ lock_writer = 0
              /\ actor_alive' = actor_alive \cup {hreq[h].pool} ]_vars
    /\ [][ \A k \in registry \ registry' :
              MailboxClosed(k) /\ agg_pc = "reap" ]_vars
    /\ [][ \A h \in Handlers :
              (strategy = "B" /\ hpc[h] = "start" /\ hpc'[h] = "send"
               /\ hreq[h].pool \in registry) =>
                  UNCHANGED <<registry, actor_alive, pools_data>> ]_vars

\* Two post_report for the same pool, absent from the registry, have raced:
\* the first spawned the pool's actor and has sent, the second found the
\* entry and spawned nothing.
C20_Witness ==
    /\ strategy = "B"
    /\ \E h \in Handlers :
          /\ hpc[h] = "send"
          /\ ~hspawned[h]
          /\ actor_alive = {hreq[h].pool}
          /\ registry = {hreq[h].pool}
          /\ acked # {}
          /\ nreports = MaxReports

\* data_actor is in its select! loop.
InSelectLoop == strategy = "A" /\ actor_pc = "loop"

StoreOf(data, k) == IF k \in DOMAIN data THEN data[k] ELSE <<>>

\* The pools whose deque this step creates, removes or changes.
Changed == {k \in Pools : StoreOf(pools_data', k) # StoreOf(pools_data, k)
                           \/ (k \in DOMAIN pools_data') # (k \in DOMAIN pools_data)}

\* In this step data_actor (A) receives the report at the head of the channel.
RecvStepA == strategy = "A" /\ actor_pc' = "loop" /\ report_ch # <<>>
             /\ report_ch' = Tail(report_ch)

\* In this step pool k's actor (B) takes an AddReport command.
AddStepB(k) ==
    /\ strategy = "B"
    /\ k \in actor_alive'
    /\ k \in DOMAIN mailbox /\ mailbox[k] # <<>>
    /\ mailbox'[k] = Tail(mailbox[k])
    /\ Head(mailbox[k]).kind = "AddReport"

\* C22: ingestion is local to its pool in every strategy: pushing (in C,
\* merging) a report for pool K changes K's deque only, by appending the
\* report, and the prune of a pass removes from K's deque only reports of
\* K's deque: after the pass each deque is its own former content (plus, in
\* C, the drained reports of its own pool, in arrival order) pruned.
C22_IngestionLocal ==
    /\ [](\A k \in DOMAIN pools_data : \A r \in ReportsOf(pools_data[k]) : r.pool = k)
    /\ [][ RecvStepA =>
              /\ Changed = {Head(report_ch).pool}
              /\ pools_data'[Head(report_ch).pool]
                    = Append(StoreOf(pools_data, Head(report_ch).pool), Head(report_ch)) ]_vars
    /\ [][ \A k \in Pools : AddStepB(k) =>
              /\ Changed = {k}
              /\ pools_data'[k] = Append(pools_data[k], Head(mailbox[k]).report) ]_vars
    /\ [][ ComputePassA =>
              /\ DOMAIN pools_data' = DOMAIN pools_data
              /\ \A k \in DOMAIN pools_data :
                    pools_data'[k] = PruneFront(pools_data[k], ExpirationTs(now)) ]_vars
    /\ [][ \A k \in Pools : ReplyComputed(k) =>
              /\ Changed \subseteq {k}
              /\ pools_data'[k] = Retain(pools_data[k], ExpirationTs(now)) ]_vars
    /\ [][ ComputePassC =>
              \A k \in Pools :
                  StoreOf(pools_data', k)
                    = Retain(StoreOf(pools_data, k)
                             \o SelectSeq(new_reports, LAMBDA r : r.pool = k),
                             ExpirationTs(now)) ]_vars

\* Both pools have had a report pushed: the one of one pool has been evicted
\* by a pass, the other pool's deque holds its own.
C22_Witness ==
    /\ seen = Pools
    /\ \E k \in DOMAIN pools_data : pools_data[k] = <<>>
    /\ \E k \in DOMAIN pools_data : Len(pools_data[k]) = 1
    /\ \E i \in ReportIds : evicted[i] = 1

====
